---- MODULE Spec2Model ----
(***************************************************************************)
(* num2en: conversion of integers, decimal strings and digit strings to    *)
(* English words (src/src/lib.rs).                                         *)
(*                                                                         *)
(* Every public function of the crate is pure.  The state of the model is  *)
(* one call: the argument (arg), the function applied to it (fn) and the   *)
(* value it returned (ret).  Init draws the argument, each action applies  *)
(* one public function to it.                                              *)
(*                                                                         *)
(* Integers wider than TLC's machine integers are kept as little-endian    *)
(* sequences of base-1000 limbs without leading zero limbs (<<>> is 0), so  *)
(* that u32 .. u128 keep their full range. Text is kept as TLA+ strings.   *)
(***************************************************************************)
EXTENDS Integers, Sequences, FiniteSets, TLC

VARIABLES arg, fn, ret

vars == <<arg, fn, ret>>

(***************************************************************************)
(* Bounds of the model.                                                    *)
(***************************************************************************)
\* every integer 0 .. MaxSmall (and its negation) is an argument
MaxSmall == 1100
\* every string over Alphabet of length <= MaxStrLen is an argument
MaxStrLen == 4
\* floats 0.s * 10^exp have exp in -MaxFracExp .. MaxIntExp
MaxFracExp == 5
MaxIntExp == 41

(***************************************************************************)
(* Arithmetic of the unsigned integer types on base-1000 limbs.            *)
(***************************************************************************)
Base == 1000

RECURSIVE Norm(_)
\* drop the most significant limbs that are zero
Norm(a) ==
    IF a = <<>> THEN <<>>
    ELSE IF a[Len(a)] = 0 THEN Norm(SubSeq(a, 1, Len(a) - 1))
    ELSE a

RECURSIVE ToBig(_)
\* a small natural number as a limb sequence
ToBig(i) ==
    IF i = 0 THEN <<>> ELSE <<i % Base>> \o ToBig(i \div Base)

Limb(a, i) == IF i <= Len(a) THEN a[i] ELSE 0

MaxOf(x, y) == IF x >= y THEN x ELSE y

RECURSIVE AddFrom(_, _, _, _)
AddFrom(a, b, i, carry) ==
    IF i > MaxOf(Len(a), Len(b))
    THEN (IF carry = 0 THEN <<>> ELSE <<carry>>)
    ELSE LET s == Limb(a, i) + Limb(b, i) + carry
         IN  <<s % Base>> \o AddFrom(a, b, i + 1, s \div Base)

\* a + b, unbounded
BigAdd(a, b) == Norm(AddFrom(a, b, 1, 0))

RECURSIVE SubFrom(_, _, _, _)
SubFrom(a, b, i, borrow) ==
    IF i > Len(a) THEN <<>>
    ELSE LET d == Limb(a, i) - Limb(b, i) - borrow
         IN  IF d < 0
             THEN <<d + Base>> \o SubFrom(a, b, i + 1, 1)
             ELSE <<d>> \o SubFrom(a, b, i + 1, 0)

RECURSIVE LessFrom(_, _, _)
\* a < b on limbs i, i-1, .. 1 of two sequences of the same length
LessFrom(a, b, i) ==
    IF i = 0 THEN FALSE
    ELSE IF a[i] # b[i] THEN a[i] < b[i]
    ELSE LessFrom(a, b, i - 1)

BigLess(a, b) ==
    IF Len(a) # Len(b) THEN Len(a) < Len(b) ELSE LessFrom(a, b, Len(a))

BigLeq(a, b) == a = b \/ BigLess(a, b)

\* a - b for b <= a
BigSub(a, b) == Norm(SubFrom(a, b, 1, 0))

RECURSIVE MulSmallFrom(_, _, _, _)
MulSmallFrom(a, m, i, carry) ==
    IF i > Len(a) THEN ToBig(carry)
    ELSE LET p == a[i] * m + carry
         IN  <<p % Base>> \o MulSmallFrom(a, m, i + 1, p \div Base)

\* a * m for a small factor m, unbounded
BigMulSmall(a, m) == Norm(MulSmallFrom(a, m, 1, 0))

\* a / 1000
Div1000(a) == IF a = <<>> THEN <<>> ELSE Tail(a)

\* a % 1000
Mod1000(a) == IF a = <<>> THEN 0 ELSE Head(a)

RECURSIVE BigDiv(_, _)
\* a / d for a divisor d that is a power of 1000:
\* a / d = (a / 1000) / (d / 1000) while 1000 divides d
BigDiv(a, d) ==
    IF d = <<1>> THEN a ELSE BigDiv(Div1000(a), Div1000(d))

RECURSIVE Pow1000(_)
\* (1000 as T).pow(p)
Pow1000(p) == IF p = 0 THEN <<1>> ELSE <<0>> \o Pow1000(p - 1)

RECURSIVE Pow2(_)
\* 2^b
Pow2(b) ==
    IF b = 0 THEN <<1>>
    ELSE IF b >= 16 THEN BigMulSmall(Pow2(b - 16), 65536)
    ELSE BigMulSmall(Pow2(b - 1), 2)

(***************************************************************************)
(* The integer types: width in bits and the $num_of_periods literal the    *)
(* conversion macros are instantiated with.  usize/isize exist in the two  *)
(* builds target_pointer_width = "64" and "32".                            *)
(***************************************************************************)
UnsignedTypes == {"u8", "u16", "u32", "u64", "u128", "usize64", "usize32"}

SignedTypes == {"i8", "i16", "i32", "i64", "i128", "isize64", "isize32"}

Bits(t) ==
    CASE t \in {"u8", "i8"} -> 8
      [] t \in {"u16", "i16"} -> 16
      [] t \in {"u32", "i32", "usize32", "isize32"} -> 32
      [] t \in {"u64", "i64", "usize64", "isize64"} -> 64
      [] t \in {"u128", "i128"} -> 128

\* the instances with u32 given one period too many
NumOfPeriods_U32Four(t) ==
    CASE t \in {"u8", "i8"} -> 0
      [] t \in {"u16", "i16"} -> 1
      [] t \in {"u32", "i32", "usize32", "isize32"} -> 4
      [] t \in {"u64", "i64", "usize64", "isize64"} -> 6
      [] t \in {"u128", "i128"} -> 12

NumOfPeriods(t) ==
    CASE t \in {"u8", "i8"} -> 0
      [] t \in {"u16", "i16"} -> 1
      [] t \in {"u32", "i32", "usize32", "isize32"} -> 3
      [] t \in {"u64", "i64", "usize64", "isize64"} -> 6
      [] t \in {"u128", "i128"} -> 12

P2_7 == Pow2(7)
P2_8 == Pow2(8)
P2_15 == Pow2(15)
P2_16 == Pow2(16)
P2_31 == Pow2(31)
P2_32 == Pow2(32)
P2_63 == Pow2(63)
P2_64 == Pow2(64)
P2_127 == Pow2(127)
P2_128 == Pow2(128)

\* 2^Bits(t)
Modulus(t) ==
    CASE Bits(t) = 8 -> P2_8
      [] Bits(t) = 16 -> P2_16
      [] Bits(t) = 32 -> P2_32
      [] Bits(t) = 64 -> P2_64
      [] Bits(t) = 128 -> P2_128

\* 2^(Bits(t)-1), the magnitude of <iN>::MIN
MinMagnitude(t) ==
    CASE Bits(t) = 8 -> P2_7
      [] Bits(t) = 16 -> P2_15
      [] Bits(t) = 32 -> P2_31
      [] Bits(t) = 64 -> P2_63
      [] Bits(t) = 128 -> P2_127

\* <uN>::MAX
UMax(t) == BigSub(Modulus(t), <<1>>)

U128_MAX == BigSub(P2_128, <<1>>)

(***************************************************************************)
(* Text helpers (String / &str / Vec<String> operations of the code).      *)
(***************************************************************************)
CharAt(s, i) == SubSeq(s, i, i)

RECURSIVE FindFrom(_, _, _)
FindFrom(s, c, i) ==
    IF i > Len(s) THEN 0
    ELSE IF CharAt(s, i) = c THEN i
    ELSE FindFrom(s, c, i + 1)

\* str::find(c): the 1-based index of the first c in s, 0 for None
Find(s, c) == FindFrom(s, c, 1)

RECURSIVE Join_TrailingSep(_, _)
\* a join that writes the separator after every word
Join_TrailingSep(words, sep) ==
    IF words = <<>> THEN ""
    ELSE words[1] \o sep \o Join_TrailingSep(Tail(words), sep)

RECURSIVE Join(_, _)
\* Vec<String>::join(sep)
Join(words, sep) ==
    IF words = <<>> THEN ""
    ELSE IF Len(words) = 1 THEN words[1]
    ELSE words[1] \o sep \o Join(Tail(words), sep)

(***************************************************************************)
(* lt100 and lt1000                                                        *)
(***************************************************************************)
NUMS_SMALLER_THAN_20 ==
    << "one", "two", "three", "four", "five", "six", "seven", "eight", "nine",
       "ten", "eleven", "twelve", "thirteen", "fourteen", "fifteen", "sixteen",
       "seventeen", "eighteen", "nineteen" >>

NUMS_SMALLER_THAN_20_OFFSET == 1

MULTIPLES_OF_10 ==
    << "twenty", "thirty", "forty", "fifty", "sixty", "seventy", "eighty",
       "ninety" >>

MULTIPLES_OF_10_OFFSET == 2

\* Rust arrays are 0-based, TLA+ sequences 1-based
Index(array, i) == array[i + 1]

\* lt100 with the hyphen of a tens-ones word left out
lt100_NoHyphen(n, words) ==
    IF n < 20
    THEN Append(words, Index(NUMS_SMALLER_THAN_20, n - NUMS_SMALLER_THAN_20_OFFSET))
    ELSE LET tens == n \div 10
             ones == n % 10
             word == Index(MULTIPLES_OF_10, tens - MULTIPLES_OF_10_OFFSET)
         IN  IF ones # 0
             THEN Append(words, word
                      \o Index(NUMS_SMALLER_THAN_20, ones - NUMS_SMALLER_THAN_20_OFFSET))
             ELSE Append(words, word)

lt100(n, words) ==
    IF n < 20
    THEN Append(words, Index(NUMS_SMALLER_THAN_20, n - NUMS_SMALLER_THAN_20_OFFSET))
    ELSE LET tens == n \div 10
             ones == n % 10
             word == Index(MULTIPLES_OF_10, tens - MULTIPLES_OF_10_OFFSET)
         IN  IF ones # 0
             THEN Append(words, word \o "-"
                      \o Index(NUMS_SMALLER_THAN_20, ones - NUMS_SMALLER_THAN_20_OFFSET))
             ELSE Append(words, word)

lt1000(n, words) ==
    LET hundreds == n \div 100
        words1 == IF hundreds # 0
                  THEN Append(lt100(hundreds, words), "hundred")
                  ELSE words
        ones_and_tens == n % 100
    IN  IF ones_and_tens # 0 THEN lt100(ones_and_tens, words1) ELSE words1

PERIODS ==
    << "thousand", "million", "billion", "trillion", "quadrillion",
       "quintillion", "sextillion", "septillion", "octillion", "nonillion",
       "decillion", "undecillion" >>

(***************************************************************************)
(* Cardinal conversion of unsigned integers                                *)
(* (create_public_conversion_func_of_unsigned_int).                        *)
(***************************************************************************)
RECURSIVE PeriodLoop_NoZeroSkip(_, _, _, _)
\* the period loop without the  if current_period != 0  test
PeriodLoop_NoZeroSkip(n, divisor, idx, words) ==
    IF BigLeq(<<0, 1>>, divisor)
    THEN LET idx1 == idx - 1
             current_period == Mod1000(BigDiv(n, divisor))
             words1 == Append(lt1000(current_period, words), Index(PERIODS, idx1))
         IN  PeriodLoop_NoZeroSkip(n, Div1000(divisor), idx1, words1)
    ELSE words

RECURSIVE PeriodLoop_NoPeriodName(_, _, _, _)
\* the period loop without the push of the period name
PeriodLoop_NoPeriodName(n, divisor, idx, words) ==
    IF BigLeq(<<0, 1>>, divisor)
    THEN LET idx1 == idx - 1
             current_period == Mod1000(BigDiv(n, divisor))
             words1 == IF current_period # 0
                       THEN lt1000(current_period, words)
                       ELSE words
         IN  PeriodLoop_NoPeriodName(n, Div1000(divisor), idx1, words1)
    ELSE words

RECURSIVE PeriodLoop(_, _, _, _)
\* the loop  while divisor >= 1000 { idx -= 1; ...; divisor /= 1000; }
\* of the three conversion macros; yields the word list after the loop
PeriodLoop(n, divisor, idx, words) ==
    IF BigLeq(<<0, 1>>, divisor)
    THEN LET idx1 == idx - 1
             current_period == Mod1000(BigDiv(n, divisor))
             words1 == IF current_period # 0
                       THEN Append(lt1000(current_period, words),
                                   Index(PERIODS, idx1))
                       ELSE words
         IN  PeriodLoop(n, Div1000(divisor), idx1, words1)
    ELSE words

\* the decomposition started one power of 1000 too low
CardinalWords_ShortDivisor(n, num_of_periods, words) ==
    lt1000(Mod1000(n),
           PeriodLoop(n, Pow1000(num_of_periods - 1), num_of_periods, words))

\* the word list built by the period loop and the final lt1000 call
CardinalWords(n, num_of_periods, words) ==
    lt1000(Mod1000(n),
           PeriodLoop(n, Pow1000(num_of_periods), num_of_periods, words))

\* u16_to_words .. u128_to_words, usize_to_words
unsigned_to_words(t, n) ==
    IF n = <<>> THEN "zero"
    ELSE Join(CardinalWords(n, NumOfPeriods(t), <<>>), " ")

u128_to_words(n) == unsigned_to_words("u128", n)

\* n as u16, for a value below 2^16
AsU16(n) == Limb(n, 1) + Base * Limb(n, 2)

\* the hand-written 8-bit variant without its zero case
u8_to_words_NoZeroCase(n) ==
    Join(lt1000(AsU16(n), <<>>), " ")

u8_to_words(n) ==
    IF n = <<>> THEN "zero"
    ELSE Join(lt1000(AsU16(n), <<>>), " ")

(***************************************************************************)
(* Ordinal conversion (create_public_conversion_func_of_unsigned_int_ord). *)
(***************************************************************************)
ORD_NUMS_EXCEPTIONS ==
    << <<"one", "first">>, <<"two", "second">>, <<"three", "third">>,
       <<"five", "fifth">>, <<"eight", "eighth">>, <<"nine", "ninth">>,
       <<"twelve", "twelfth">> >>

RECURSIVE PositionFrom(_, _)
\* ORD_NUMS_EXCEPTIONS.iter().position(|x| x.0 == w): 0-based, -1 for None
PositionFrom(w, i) ==
    IF i >= Len(ORD_NUMS_EXCEPTIONS) THEN -1
    ELSE IF Index(ORD_NUMS_EXCEPTIONS, i)[1] = w THEN i
    ELSE PositionFrom(w, i + 1)

\* str::ends_with(c) for a one-character c
EndsWith(s, c) == Len(s) > 0 /\ CharAt(s, Len(s)) = c

\* the ordinal word of a last word that is not split at its hyphen
OrdinalLastWord_NoHyphenSplit(popped) ==
    LET index == PositionFrom(popped, 0)
    IN  IF index # -1 THEN Index(ORD_NUMS_EXCEPTIONS, index)[2]
        ELSE IF EndsWith(popped, "y")
        THEN SubSeq(popped, 1, Len(popped) - 1) \o "ieth"
        ELSE popped \o "th"

\* "Modify the last word to an ordinal word": the new last word
OrdinalLastWord(popped) ==
    LET hyphen_index == Find(popped, "-")
        penultimate_word == IF hyphen_index # 0
                            THEN SubSeq(popped, 1, hyphen_index)
                            ELSE ""
        last_word == IF hyphen_index # 0
                     THEN SubSeq(popped, hyphen_index + 1, Len(popped))
                     ELSE popped
        index == PositionFrom(last_word, 0)
    IN  IF index # -1
        THEN penultimate_word \o Index(ORD_NUMS_EXCEPTIONS, index)[2]
        ELSE IF EndsWith(last_word, "y")
        THEN penultimate_word \o SubSeq(last_word, 1, Len(last_word) - 1) \o "ieth"
        ELSE penultimate_word \o last_word \o "th"

\* the ordinal word pushed without the pop of the cardinal word
OrdinalWords_NoPop(words) ==
    Append(words, OrdinalLastWord(words[Len(words)]))

\* words.pop().unwrap() followed by the push of the ordinal word
OrdinalWords(words) ==
    Append(SubSeq(words, 1, Len(words) - 1), OrdinalLastWord(words[Len(words)]))

\* the ordinal conversion with the zero case of the cardinal conversion
unsigned_to_ord_words_CardinalZero(t, n) ==
    IF n = <<>> THEN "zero"
    ELSE Join(OrdinalWords(CardinalWords(n, NumOfPeriods(t), <<>>)), " ")

\* u16_to_ord_words .. u128_to_ord_words, usize_to_ord_words
unsigned_to_ord_words(t, n) ==
    IF n = <<>> THEN "zeroth"
    ELSE Join(OrdinalWords(CardinalWords(n, NumOfPeriods(t), <<>>)), " ")

u8_to_ord_words(n) == unsigned_to_ord_words("u16", n)

(***************************************************************************)
(* Cardinal conversion of signed integers                                  *)
(* (create_public_conversion_func_of_signed_int).  A signed value is a     *)
(* record [neg, mag]: -mag when neg, mag otherwise (neg implies mag # 0).  *)
(***************************************************************************)
UnsignedOf(t) ==
    CASE t = "i8" -> "u8"
      [] t = "i16" -> "u16"
      [] t = "i32" -> "u32"
      [] t = "i64" -> "u64"
      [] t = "i128" -> "u128"
      [] t = "isize64" -> "usize64"
      [] t = "isize32" -> "usize32"

\* n as UnsignedType: the two's complement bit pattern read as unsigned
AsUnsigned(t, n) ==
    IF n.neg THEN BigSub(Modulus(t), n.mag) ELSE n.mag

\* -n, for n > MIN
Negate(n) ==
    IF n.mag = <<>> THEN n ELSE [neg |-> ~n.neg, mag |-> n.mag]

\* n > <$t>::MIN
GreaterThanMin(t, n) == ~(n.neg /\ n.mag = MinMagnitude(t))

\* "negative" pushed inside  if n > MIN  only
SignedPrefix_NegativeInside(t, n) ==
    LET words == IF n.neg /\ GreaterThanMin(t, n) THEN <<"negative">> ELSE <<>>
        nonnegative_n == IF n.neg /\ GreaterThanMin(t, n)
                         THEN AsUnsigned(t, Negate(n))
                         ELSE AsUnsigned(t, n)
    IN  [words |-> words, nonnegative_n |-> nonnegative_n]

\* nonnegative_n left at  n as UnsignedType  for every n
SignedPrefix_NoNegate(t, n) ==
    LET words == IF n.neg THEN <<"negative">> ELSE <<>>
    IN  [words |-> words, nonnegative_n |-> AsUnsigned(t, n)]

\* the "negative" push and the value of nonnegative_n after  if n < 0 { .. }
SignedPrefix(t, n) ==
    LET words == IF n.neg THEN <<"negative">> ELSE <<>>
        nonnegative_n == IF n.neg /\ GreaterThanMin(t, n)
                         THEN AsUnsigned(t, Negate(n))
                         ELSE AsUnsigned(t, n)
    IN  [words |-> words, nonnegative_n |-> nonnegative_n]

\* i16_to_words .. i128_to_words, isize_to_words
signed_to_words(t, n) ==
    IF n.mag = <<>> THEN "zero"
    ELSE LET pre == SignedPrefix(t, n)
         IN  Join(CardinalWords(pre.nonnegative_n, NumOfPeriods(t), pre.words), " ")

i8_to_words(n) ==
    IF n.mag = <<>> THEN "zero"
    ELSE LET pre == SignedPrefix("i8", n)
         IN  Join(lt1000(AsU16(pre.nonnegative_n), pre.words), " ")

(***************************************************************************)
(* The places of the integer conversions that can panic: the table         *)
(* indexing of lt100, idx -= 1 and PERIODS[idx] of the period loop, the    *)
(* power (1000 as T).pow(P), the negation -n, and words.pop().unwrap().    *)
(***************************************************************************)
\* both table indices of lt100(n) are inside their tables
Lt100IndicesInRange(n) ==
    IF n < 20
    THEN (n - NUMS_SMALLER_THAN_20_OFFSET) \in 0..(Len(NUMS_SMALLER_THAN_20) - 1)
    ELSE /\ ((n \div 10) - MULTIPLES_OF_10_OFFSET) \in 0..(Len(MULTIPLES_OF_10) - 1)
         /\ (n % 10 # 0 =>
               ((n % 10) - NUMS_SMALLER_THAN_20_OFFSET)
                   \in 0..(Len(NUMS_SMALLER_THAN_20) - 1))

\* the arguments of the lt100 calls made by lt1000(n)
Lt100Args(n) ==
    (IF n \div 100 # 0 THEN {n \div 100} ELSE {})
    \cup (IF n % 100 # 0 THEN {n % 100} ELSE {})

RECURSIVE LoopTrace(_, _, _)
\* the iterations of the period loop: divisor at the loop head, idx after
\* idx -= 1, and current_period
LoopTrace(n, divisor, idx) ==
    IF BigLeq(<<0, 1>>, divisor)
    THEN <<[divisor |-> divisor, idx |-> idx - 1,
            current_period |-> Mod1000(BigDiv(n, divisor))]>>
         \o LoopTrace(n, Div1000(divisor), idx - 1)
    ELSE <<>>

\* the arguments of the lt1000 calls of a macro-generated conversion
Lt1000Args(n, num_of_periods) ==
    LET trace == LoopTrace(n, Pow1000(num_of_periods), num_of_periods)
    IN  { trace[i].current_period :
            i \in { j \in 1..Len(trace) : trace[j].current_period # 0 } }
        \cup {Mod1000(n)}

\* (1000 as T).pow(P) exceeds T::MAX
PowOverflows(t) == BigLess(UMax(t), Pow1000(NumOfPeriods(t)))

\* the negation -n is evaluated
NegationEvaluated(t, n) == n.neg /\ GreaterThanMin(t, n)

\* -n does not fit the signed type
NegationOverflows(t, n) == n.neg /\ n.mag = MinMagnitude(t)

(***************************************************************************)
(* str_digits_to_words and str_to_words.  A Result is a record             *)
(* [tag, val]: Ok(text), Err(error name), or Panic for a call that does    *)
(* not return (unwrap of an Err, unreachable!()).                          *)
(***************************************************************************)
Ok(v) == [tag |-> "Ok", val |-> v]

Err(e) == [tag |-> "Err", val |-> e]

Panic(site) == [tag |-> "Panic", val |-> site]

DIGITS == <<"0", "1", "2", "3", "4", "5", "6", "7", "8", "9">>

DIGIT_NAMES ==
    <<"zero", "one", "two", "three", "four", "five", "six", "seven", "eight",
      "nine">>

\* byte >= b'0' && byte <= b'9'
IsDigit(c) == \E i \in 1..Len(DIGITS) : DIGITS[i] = c

\* the value of a digit character
DigitVal(c) == (CHOOSE i \in 1..Len(DIGITS) : DIGITS[i] = c) - 1

RECURSIVE DigitWordsFrom_SkipInvalid(_, _, _)
\* the digit loop that passes over a character that is not a digit
DigitWordsFrom_SkipInvalid(digits, i, words) ==
    IF i > Len(digits) THEN Ok(words)
    ELSE IF IsDigit(CharAt(digits, i))
    THEN DigitWordsFrom_SkipInvalid(digits, i + 1,
             Append(words, Index(DIGIT_NAMES, DigitVal(CharAt(digits, i)))))
    ELSE DigitWordsFrom_SkipInvalid(digits, i + 1, words)

RECURSIVE DigitWordsFrom(_, _, _)
\* the  for digit in digits.chars()  loop: the word list, or the error
DigitWordsFrom(digits, i, words) ==
    IF i > Len(digits) THEN Ok(words)
    ELSE IF IsDigit(CharAt(digits, i))
    THEN DigitWordsFrom(digits, i + 1,
             Append(words, Index(DIGIT_NAMES, DigitVal(CharAt(digits, i)))))
    ELSE Err("InvalidCharacter")

str_digits_to_words(digits) ==
    LET r == DigitWordsFrom(digits, 1, <<>>)
    IN  IF r.tag = "Ok" THEN Ok(Join(r.val, " ")) ELSE r

RECURSIVE ParseFrom_OffByOne(_, _, _)
\* the digit loop with an overflow test that rejects u128::MAX itself
ParseFrom_OffByOne(s, i, result) ==
    IF i > Len(s) THEN [kind |-> "Ok", val |-> result]
    ELSE IF ~IsDigit(CharAt(s, i)) THEN [kind |-> "InvalidDigit", val |-> <<>>]
    ELSE LET mul == BigMulSmall(result, 10)
             sum == BigAdd(mul, ToBig(DigitVal(CharAt(s, i))))
         IN  IF BigLeq(U128_MAX, mul) \/ BigLeq(U128_MAX, sum)
             THEN [kind |-> "PosOverflow", val |-> <<>>]
             ELSE ParseFrom_OffByOne(s, i + 1, sum)

RECURSIVE ParseFrom_DigitCount(_, _, _)
\* the digit loop with overflow decided by the number of digits
ParseFrom_DigitCount(s, i, result) ==
    IF i > Len(s) THEN [kind |-> "Ok", val |-> result]
    ELSE IF ~IsDigit(CharAt(s, i)) THEN [kind |-> "InvalidDigit", val |-> <<>>]
    ELSE LET mul == BigMulSmall(result, 10)
             sum == BigAdd(mul, ToBig(DigitVal(CharAt(s, i))))
         IN  IF Len(s) > 39 \/ BigLess(U128_MAX, mul) \/ BigLess(U128_MAX, sum)
             THEN [kind |-> "PosOverflow", val |-> <<>>]
             ELSE ParseFrom_DigitCount(s, i + 1, sum)

RECURSIVE ParseFrom(_, _, _)
\* the digit loop of <u128 as FromStr>: result * 10 + digit, checked
ParseFrom(s, i, result) ==
    IF i > Len(s) THEN [kind |-> "Ok", val |-> result]
    ELSE IF ~IsDigit(CharAt(s, i)) THEN [kind |-> "InvalidDigit", val |-> <<>>]
    ELSE LET mul == BigMulSmall(result, 10)
             sum == BigAdd(mul, ToBig(DigitVal(CharAt(s, i))))
         IN  IF BigLess(U128_MAX, mul) \/ BigLess(U128_MAX, sum)
             THEN [kind |-> "PosOverflow", val |-> <<>>]
             ELSE ParseFrom(s, i + 1, sum)

\* a parse that reads the empty string as 0
ParseU128_EmptyIsZero(s) ==
    IF s = "" THEN [kind |-> "Ok", val |-> <<>>]
    ELSE IF s = "+" \/ s = "-" THEN [kind |-> "InvalidDigit", val |-> <<>>]
    ELSE IF CharAt(s, 1) = "+" THEN ParseFrom(s, 2, <<>>)
    ELSE ParseFrom(s, 1, <<>>)

\* s.parse::<u128>(): Ok(value) or the IntErrorKind
ParseU128(s) ==
    IF s = "" THEN [kind |-> "Empty", val |-> <<>>]
    ELSE IF s = "+" \/ s = "-" THEN [kind |-> "InvalidDigit", val |-> <<>>]
    ELSE IF CharAt(s, 1) = "+" THEN ParseFrom(s, 2, <<>>)
    ELSE ParseFrom(s, 1, <<>>)

RECURSIVE ValidFrom_NoDigitTest(_, _, _, _)
\* the validity check without the at_least_one_digit_flag test
ValidFrom_NoDigitTest(string, i, decimal_point_flag, at_least_one_digit_flag) ==
    IF i > Len(string) THEN TRUE
    ELSE LET byte == CharAt(string, i)
         IN  IF byte = "."
             THEN IF decimal_point_flag THEN FALSE
                  ELSE ValidFrom_NoDigitTest(string, i + 1, TRUE,
                                             at_least_one_digit_flag)
             ELSE IF IsDigit(byte)
             THEN ValidFrom_NoDigitTest(string, i + 1, decimal_point_flag, TRUE)
             ELSE IF ~(i = 1 /\ byte = "-") THEN FALSE
             ELSE ValidFrom_NoDigitTest(string, i + 1, decimal_point_flag,
                                        at_least_one_digit_flag)

RECURSIVE ValidFrom_MinusAnywhere(_, _, _, _)
\* the validity check that accepts '-' at every position
ValidFrom_MinusAnywhere(string, i, decimal_point_flag, at_least_one_digit_flag) ==
    IF i > Len(string) THEN at_least_one_digit_flag
    ELSE LET byte == CharAt(string, i)
         IN  IF byte = "."
             THEN IF decimal_point_flag THEN FALSE
                  ELSE ValidFrom_MinusAnywhere(string, i + 1, TRUE,
                                               at_least_one_digit_flag)
             ELSE IF IsDigit(byte)
             THEN ValidFrom_MinusAnywhere(string, i + 1, decimal_point_flag, TRUE)
             ELSE IF ~(byte = "-") THEN FALSE
             ELSE ValidFrom_MinusAnywhere(string, i + 1, decimal_point_flag,
                                          at_least_one_digit_flag)

RECURSIVE ValidFrom(_, _, _, _)
\* the validity check loop and the at_least_one_digit_flag test after it
ValidFrom(string, i, decimal_point_flag, at_least_one_digit_flag) ==
    IF i > Len(string) THEN at_least_one_digit_flag
    ELSE LET byte == CharAt(string, i)
         IN  IF byte = "."
             THEN IF decimal_point_flag THEN FALSE
                  ELSE ValidFrom(string, i + 1, TRUE, at_least_one_digit_flag)
             ELSE IF IsDigit(byte)
             THEN ValidFrom(string, i + 1, decimal_point_flag, TRUE)
             ELSE IF ~(i = 1 /\ byte = "-") THEN FALSE
             ELSE ValidFrom(string, i + 1, decimal_point_flag,
                            at_least_one_digit_flag)

\* the part of str_to_words after the sign was stripped
StrBody(string, words) ==
    LET floating_point_index == Find(string, ".")
        integer_part_result ==
            ParseU128(SubSeq(string, 1,
                IF floating_point_index # 0 THEN floating_point_index - 1
                ELSE Len(string)))
        words1 == IF integer_part_result.kind = "Ok"
                  THEN Append(words, u128_to_words(integer_part_result.val))
                  ELSE words
        decimal_part == SubSeq(string, floating_point_index + 1, Len(string))
        spelled == str_digits_to_words(decimal_part)
    IN  IF integer_part_result.kind = "PosOverflow" THEN Err("TooLarge")
        ELSE IF integer_part_result.kind \notin {"Ok", "Empty"}
        THEN Panic("unreachable")
        ELSE IF floating_point_index = 0 THEN Ok(Join(words1, " "))
        ELSE IF floating_point_index < Len(string)
        THEN IF spelled.tag = "Ok"
             THEN Ok(Join(Append(Append(words1, "point"), spelled.val), " "))
             ELSE Panic("unwrap")
        ELSE Ok(Join(Append(words1, "point"), " "))

str_to_words(string) ==
    IF Len(string) = 0 THEN Ok("")
    ELSE IF ~ValidFrom(string, 1, FALSE, FALSE) THEN Err("InvalidString")
    ELSE IF CharAt(string, 1) = "-"
    THEN StrBody(SubSeq(string, 2, Len(string)), <<"negative">>)
    ELSE StrBody(string, <<>>)

(***************************************************************************)
(* f32_to_words and f64_to_words (create_public_conversion_func_of_float). *)
(* A float is a record [class, neg, s, exp]: class is "nan", "inf", "zero" *)
(* or "finite"; for a finite non-zero value s holds the digits of its      *)
(* shortest round-trip decimal (no leading or trailing zero) and exp its   *)
(* decimal exponent: the value is 0.s * 10^exp.                            *)
(***************************************************************************)
\* float.is_finite()
IsFinite(float) == float.class \notin {"nan", "inf"}

RECURSIVE Zeros(_)
\* n characters '0'
Zeros(n) == IF n <= 0 THEN "" ELSE "0" \o Zeros(n - 1)

\* the digits of a finite non-zero value in positional notation
DigitsToDecStr(digits, exp) ==
    IF exp <= 0 THEN "0." \o Zeros(-exp) \o digits
    ELSE IF exp < Len(digits)
    THEN SubSeq(digits, 1, exp) \o "." \o SubSeq(digits, exp + 1, Len(digits))
    ELSE digits \o Zeros(exp - Len(digits))

\* float.to_string(): Display of f32 / f64
FloatToString(float) ==
    CASE float.class = "nan" -> "NaN"
      [] float.class = "inf" -> (IF float.neg THEN "-inf" ELSE "inf")
      [] float.class = "zero" -> (IF float.neg THEN "-0" ELSE "0")
      [] float.class = "finite" ->
           (IF float.neg THEN "-" ELSE "") \o DigitsToDecStr(float.s, float.exp)

\* the conversion that takes only NaN for not finite
float_to_words_NanOnly(float) ==
    IF float.class = "nan" THEN Err("NotFinite")
    ELSE LET r == str_to_words(FloatToString(float))
         IN  IF r = Err("TooLarge") THEN Err("TooLarge")
             ELSE IF r = Err("InvalidString") THEN Panic("unreachable")
             ELSE r

\* f32_to_words, f64_to_words
float_to_words(float) ==
    IF ~IsFinite(float) THEN Err("NotFinite")
    ELSE LET r == str_to_words(FloatToString(float))
         IN  IF r = Err("TooLarge") THEN Err("TooLarge")
             ELSE IF r = Err("InvalidString") THEN Panic("unreachable")
             ELSE r

(***************************************************************************)
(* The arguments the calls are made with.                                  *)
(***************************************************************************)
\* three-digit groups: below 20, a multiple of ten, hyphenated, with hundreds
GroupSamples == {1, 12, 40, 121, 999}

\* a u128 has Len(U128_MAX) = 13 groups of three digits
NumLimbs == Len(U128_MAX)

\* the number with group a at limb i, group b at limb j and zeros elsewhere
TwoGroups(i, a, j, b) ==
    Norm([k \in 1..j |-> IF k = i THEN a ELSE IF k = j THEN b ELSE 0])

SparseMags ==
    { TwoGroups(q[1], q[2], q[3], q[4]) :
        q \in { r \in (1..NumLimbs) \X (GroupSamples \cup {0})
                       \X (1..NumLimbs) \X GroupSamples : r[1] < r[3] } }

\* the values around the limits of the integer types
BoundaryMags ==
    UNION { { BigSub(p, <<1>>), p, BigAdd(p, <<1>>), BigSub(p, <<2>>) } :
              p \in { P2_7, P2_8, P2_15, P2_16, P2_31, P2_32, P2_63, P2_64,
                      P2_127, P2_128 } }

\* 999, 999999, ..: every group non-zero
DenseMags == { BigSub(Pow1000(k), <<1>>) : k \in 1..(NumLimbs - 1) }

SmallMags == { ToBig(i) : i \in 0..MaxSmall }

Mags ==
    { m \in SmallMags \cup SparseMags \cup BoundaryMags \cup DenseMags :
        BigLeq(m, U128_MAX) }

IntArg(neg, mag) ==
    [kind |-> "int", neg |-> neg, mag |-> mag, s |-> "", class |-> "none", exp |-> 0]

StrArg(s) ==
    [kind |-> "str", neg |-> FALSE, mag |-> <<>>, s |-> s, class |-> "none", exp |-> 0]

IntArgs ==
    { IntArg(FALSE, m) : m \in Mags }
    \cup { IntArg(TRUE, m) : m \in { x \in Mags : x # <<>> /\ BigLeq(x, P2_127) } }

Alphabet == {"-", ".", "0", "7", "x"}

RECURSIVE StringsUpTo(_)
StringsUpTo(len) ==
    IF len = 0 THEN {""}
    ELSE LET shorter == StringsUpTo(len - 1)
         IN  shorter \cup { c \o t : c \in Alphabet, t \in shorter }

U128_MAX_TEXT == "340282366920938463463374607431768211455"

U128_MAX_PLUS_1_TEXT == "340282366920938463463374607431768211456"

\* integer parts around the 128-bit ceiling
LongIntegerParts ==
    { U128_MAX_TEXT, U128_MAX_PLUS_1_TEXT,
      "340282366920938463463374607431768211454",
      "340282366920938463463374607431768211460",
      "340282366920938463463374607431768300000",
      "999999999999999999999999999999999999999",
      "99999999999999999999999999999999999999",
      "1000000000000000000000000000000000000000",
      "34028236692093846346337460743176821145",
      "3402823669209384634633746074317682114550" }

LongStrings ==
    { sign \o pad \o int \o frac :
        sign \in {"", "-"}, pad \in {"", "0", "00"}, int \in LongIntegerParts,
        frac \in {"", ".", ".5", ".99999999", "x", ".5.", ".-", "-"} }

ExampleStrings ==
    { "123.456", ".0042", "0.0042", "1095.", "1095", "0003000", "235:53",
      "-.5", "-0", "123.123", "001247", "12a", "+5", "-1000000.07" }

StrArgs ==
    { StrArg(s) : s \in StringsUpTo(MaxStrLen) \cup LongStrings \cup ExampleStrings }

FloatArg(class, neg, digits, exp) ==
    [kind |-> "float", neg |-> neg, mag |-> <<>>, s |-> digits,
     class |-> class, exp |-> exp]

\* shortest round-trip digits: of at most 6 digits (every such decimal is
\* the shortest text of an f32 and of an f64), of at most 15 digits (f64)
FloatDigits6 == {"1", "5", "4", "34", "152", "4242", "123123", "99"}

FloatDigits15 == {"340282366920938", "340282366920939", "123456789012345"}

\* decimal exponents: fractions, integers, and both sides of 2^128
FloatExps == (0 - MaxFracExp)..MaxIntExp

\* f32::MAX, 2^127 as f32, 2^128 as f64, the f64 below 2^128, f64::MAX
FloatLimits ==
    { FloatArg("finite", neg, q[1], q[2]) :
        neg \in BOOLEAN,
        q \in { <<"34028235", 39>>, <<"17014118", 39>>,
                <<"3402823669209385", 39>>, <<"34028236692093843", 39>>,
                <<"17976931348623157", 309>> } }

FloatArgs ==
    { FloatArg("finite", neg, d, e) :
        neg \in BOOLEAN, d \in FloatDigits6 \cup FloatDigits15, e \in FloatExps }
    \cup FloatLimits
    \cup { FloatArg("zero", neg, "", 0) : neg \in BOOLEAN }
    \cup { FloatArg("inf", neg, "", 0) : neg \in BOOLEAN }
    \cup { FloatArg("nan", neg, "", 0) : neg \in BOOLEAN }

\* the argument is a value of the float type t
FitsFloat(t, a) ==
    /\ a.kind = "float"
    /\ \/ t = "f64"
       \/ a.class # "finite"
       \/ Len(a.s) <= 6 /\ a.exp <= 38
       \/ a.s \in {"34028235", "17014118"}

(***************************************************************************)
(* The state machine: Init draws the argument, one action per function.    *)
(***************************************************************************)
NoCall == [f |-> "none", t |-> "none"]

NoRet == [tag |-> "None", val |-> ""]

\* the String an integer conversion returns
Text(v) == [tag |-> "String", val |-> v]

\* the argument is a value of the unsigned type t
FitsUnsigned(t, a) ==
    a.kind = "int" /\ ~a.neg /\ BigLeq(a.mag, UMax(t))

\* the argument is a value of the signed type t
FitsSigned(t, a) ==
    /\ a.kind = "int"
    /\ IF a.neg THEN BigLeq(a.mag, MinMagnitude(t))
       ELSE BigLess(a.mag, MinMagnitude(t))

SignedVal(a) == [neg |-> a.neg, mag |-> a.mag]

Init ==
    /\ arg \in IntArgs \cup StrArgs \cup FloatArgs
    /\ fn = NoCall
    /\ ret = NoRet

Call_lt1000 ==
    /\ fn = NoCall
    /\ FitsUnsigned("u16", arg)
    /\ BigLess(arg.mag, Pow1000(1))
    /\ fn' = [f |-> "lt1000", t |-> "u16"]
    /\ ret' = [tag |-> "Words", val |-> lt1000(AsU16(arg.mag), <<>>)]
    /\ UNCHANGED arg

Call_unsigned_to_words(t) ==
    /\ fn = NoCall
    /\ FitsUnsigned(t, arg)
    /\ fn' = [f |-> "to_words", t |-> t]
    /\ ret' = Text(unsigned_to_words(t, arg.mag))
    /\ UNCHANGED arg

Call_u8_to_words ==
    /\ fn = NoCall
    /\ FitsUnsigned("u8", arg)
    /\ fn' = [f |-> "to_words", t |-> "u8"]
    /\ ret' = Text(u8_to_words(arg.mag))
    /\ UNCHANGED arg

Call_unsigned_to_ord_words(t) ==
    /\ fn = NoCall
    /\ FitsUnsigned(t, arg)
    /\ fn' = [f |-> "to_ord_words", t |-> t]
    /\ ret' = Text(unsigned_to_ord_words(t, arg.mag))
    /\ UNCHANGED arg

Call_u8_to_ord_words ==
    /\ fn = NoCall
    /\ FitsUnsigned("u8", arg)
    /\ fn' = [f |-> "to_ord_words", t |-> "u8"]
    /\ ret' = Text(u8_to_ord_words(arg.mag))
    /\ UNCHANGED arg

Call_signed_to_words(t) ==
    /\ fn = NoCall
    /\ FitsSigned(t, arg)
    /\ fn' = [f |-> "to_words", t |-> t]
    /\ ret' = Text(signed_to_words(t, SignedVal(arg)))
    /\ UNCHANGED arg

Call_i8_to_words ==
    /\ fn = NoCall
    /\ FitsSigned("i8", arg)
    /\ fn' = [f |-> "to_words", t |-> "i8"]
    /\ ret' = Text(i8_to_words(SignedVal(arg)))
    /\ UNCHANGED arg

Call_str_digits_to_words ==
    /\ fn = NoCall
    /\ arg.kind = "str"
    /\ fn' = [f |-> "str_digits_to_words", t |-> "str"]
    /\ ret' = str_digits_to_words(arg.s)
    /\ UNCHANGED arg

Call_str_to_words ==
    /\ fn = NoCall
    /\ arg.kind = "str"
    /\ fn' = [f |-> "str_to_words", t |-> "str"]
    /\ ret' = str_to_words(arg.s)
    /\ UNCHANGED arg

Call_float_to_words(t) ==
    /\ fn = NoCall
    /\ FitsFloat(t, arg)
    /\ fn' = [f |-> "float_to_words", t |-> t]
    /\ ret' = float_to_words(arg)
    /\ UNCHANGED arg

Next ==
    \/ Call_lt1000
    \/ \E t \in UnsignedTypes \ {"u8"} : Call_unsigned_to_words(t)
    \/ Call_u8_to_words
    \/ \E t \in UnsignedTypes \ {"u8"} : Call_unsigned_to_ord_words(t)
    \/ Call_u8_to_ord_words
    \/ \E t \in SignedTypes \ {"i8"} : Call_signed_to_words(t)
    \/ Call_i8_to_words
    \/ Call_str_digits_to_words
    \/ Call_str_to_words
    \/ \E t \in {"f32", "f64"} : Call_float_to_words(t)

Spec == Init /\ [][Next]_vars

(***************************************************************************)
(* Definitions the properties are stated with.                             *)
(***************************************************************************)
Called(f) == fn.f = f

\* the k-th group of three digits of n: (n div 1000^k) mod 1000
Group(n, k) == Limb(n, k + 1)

\* the k-th period name: 1 = thousand, .., 12 = undecillion
PeriodName(k) == PERIODS[k]

\* the top period of a width
TopPeriod(bits) ==
    CASE bits = 16 -> 1
      [] bits = 32 -> 3
      [] bits = 64 -> 6
      [] bits = 128 -> 12

\* the token for r in 1..99: irregular word, tens word, or tens-ones
TokenBelow100(r) ==
    IF r < 20 THEN NUMS_SMALLER_THAN_20[r]
    ELSE IF r % 10 = 0 THEN MULTIPLES_OF_10[(r \div 10) - 1]
    ELSE MULTIPLES_OF_10[(r \div 10) - 1] \o "-" \o NUMS_SMALLER_THAN_20[r % 10]

\* the tokens of m in 0..999
SubThousandTokens(m) ==
    (IF m >= 100 THEN <<NUMS_SMALLER_THAN_20[m \div 100], "hundred">> ELSE <<>>)
    \o (IF m % 100 # 0 THEN <<TokenBelow100(m % 100)>> ELSE <<>>)

RECURSIVE CardinalTokens(_, _)
\* the tokens of n from period k down to the units group
CardinalTokens(n, k) ==
    IF k = 0 THEN SubThousandTokens(Group(n, 0))
    ELSE (IF Group(n, k) # 0
          THEN SubThousandTokens(Group(n, k)) \o <<PeriodName(k)>>
          ELSE <<>>) \o CardinalTokens(n, k - 1)

SpacePositions(s) == { i \in 1..Len(s) : CharAt(s, i) = " " }

RECURSIVE TokensFrom(_, _, _)
TokensFrom(s, start, spaces) ==
    LET later == { p \in spaces : p >= start }
    IN  IF later = {} THEN <<SubSeq(s, start, Len(s))>>
        ELSE LET e == CHOOSE p \in later : \A q \in later : p <= q
             IN  <<SubSeq(s, start, e - 1)>> \o TokensFrom(s, e + 1, spaces)

\* the space-separated tokens of a text
Tokens(s) == TokensFrom(s, 1, SpacePositions(s))

Range(seq) == { seq[i] : i \in 1..Len(seq) }

LastOf(seq) == seq[Len(seq)]

\* the cardinal text of the unsigned value m in the unsigned type t
UnsignedText(t, m) ==
    IF t = "u8" THEN u8_to_words(m) ELSE unsigned_to_words(t, m)

\* the cardinal text of the signed value n in the signed type t
SignedText(t, n) ==
    IF t = "i8" THEN i8_to_words(n) ELSE signed_to_words(t, n)

OneMillion == <<0, 0, 1>>

(***************************************************************************)
(* C1: for every non-zero unsigned n of the widths u16, u32, u64, u128 and *)
(* usize, X_to_words(n) is the single-space join of, for k from the top    *)
(* period of the width down to 1, the sub-thousand rendering of group k    *)
(* followed by the k-th period name when the group is non-zero and nothing *)
(* when it is zero, then the rendering of n mod 1000.  A period name        *)
(* appears iff its group is non-zero, "zero" never appears, and 1_000_000  *)
(* gives "one million".                                                    *)
(***************************************************************************)
C1_PeriodDecomposition ==
    (Called("to_words") /\ fn.t \in UnsignedTypes \ {"u8"} /\ arg.mag # <<>>) =>
        LET top == TopPeriod(Bits(fn.t))
            toks == Tokens(ret.val)
        IN  /\ ret.val = Join(CardinalTokens(arg.mag, top), " ")
            /\ \A k \in 1..Len(PERIODS) :
                 (PeriodName(k) \in Range(toks)) <=> (Group(arg.mag, k) # 0)
            /\ "zero" \notin Range(toks)
            /\ (arg.mag = OneMillion => ret.val = "one million")

C1_Witness ==
    /\ Called("to_words")
    /\ fn.t = "u128"
    /\ arg.mag = TwoGroups(2, 40, 13, 121)
    /\ ret.val = "one hundred twenty-one undecillion forty thousand"

(***************************************************************************)
(* C2: for each signed width, to_words(MIN) is "negative " followed by the *)
(* unsigned cardinal text of 2^(W-1); i8_to_words(-128) is                 *)
(* "negative one hundred twenty-eight".                                    *)
(***************************************************************************)
C2_MostNegative ==
    (Called("to_words") /\ fn.t \in SignedTypes /\ arg.neg
       /\ arg.mag = Pow2(Bits(fn.t) - 1)) =>
        /\ ret.val = "negative " \o UnsignedText(UnsignedOf(fn.t), Pow2(Bits(fn.t) - 1))
        /\ (fn.t = "i8" => ret.val = "negative one hundred twenty-eight")

C2_Witness ==
    /\ Called("to_words")
    /\ fn.t = "i64"
    /\ arg.neg
    /\ arg.mag = P2_63
    /\ ret.val = "negative " \o unsigned_to_words("u64", P2_63)

(***************************************************************************)
(* C3: sign symmetry: for every signed n above the most negative value of  *)
(* its width, to_words(n) and to_words(-n) are identical except for a      *)
(* leading "negative " on the negative one.                                *)
(***************************************************************************)
C3_SignSymmetry ==
    (Called("to_words") /\ fn.t \in SignedTypes /\ arg.mag # <<>>
       /\ ~(arg.neg /\ arg.mag = Pow2(Bits(fn.t) - 1))) =>
        LET opposite == SignedText(fn.t, [neg |-> ~arg.neg, mag |-> arg.mag])
        IN  IF arg.neg THEN ret.val = "negative " \o opposite
            ELSE opposite = "negative " \o ret.val

C3_Witness ==
    /\ Called("to_words")
    /\ fn.t = "i32"
    /\ arg.neg
    /\ arg.mag = <<121, 40>>
    /\ ret.val = "negative forty thousand one hundred twenty-one"

(***************************************************************************)
(* C4: for m in 1..999, lt1000(m) appends the word of the hundreds digit   *)
(* and "hundred" when m >= 100, then, when r = m mod 100 is non-zero, one  *)
(* token for r: the irregular word below 20, the bare tens word for a      *)
(* multiple of 10, otherwise tens word, hyphen, ones word.  For m = 0 it   *)
(* appends nothing.                                                        *)
(***************************************************************************)
C4_SubThousand ==
    Called("lt1000") =>
        LET m == AsU16(arg.mag)
        IN  /\ ret.val = SubThousandTokens(m)
            /\ (m = 0 => ret.val = <<>>)
            /\ (m = 42 => ret.val = <<"forty-two">>)
            /\ (m = 919 => ret.val = <<"nine", "hundred", "nineteen">>)
            /\ (m = 120 => ret.val = <<"one", "hundred", "twenty">>)

C4_Witness ==
    /\ Called("lt1000")
    /\ arg.mag = <<342>>
    /\ ret.val = <<"three", "hundred", "forty-two">>

(***************************************************************************)
(* C5: X_to_words(0) is exactly "zero" for every integer type, and         *)
(* X_to_ord_words(0) is exactly "zeroth" for every unsigned type.          *)
(***************************************************************************)
C5_Zero ==
    /\ (Called("to_words") /\ arg.mag = <<>>) => ret.val = "zero"
    /\ (Called("to_ord_words") /\ arg.mag = <<>>) => ret.val = "zeroth"

C5_Witness ==
    /\ Called("to_ord_words")
    /\ fn.t = "u64"
    /\ arg.mag = <<>>
    /\ ret.val = "zeroth"

(***************************************************************************)
(* C6: for every non-zero unsigned n, the last token of X_to_ord_words(n)  *)
(* is obtained from the last token t of the cardinal text of n: split t at *)
(* its hyphen into a prefix kept verbatim (hyphen included) and a trailing *)
(* word w; w in one/two/three/five/eight/nine/twelve becomes first/second/ *)
(* third/fifth/eighth/ninth/twelfth; else a w ending in "y" drops the "y"  *)
(* and gets "ieth"; else w gets "th".  The same holds when t is "hundred"  *)
(* or a period name (100: "one hundredth", 20: "twentieth",                *)
(* 21: "twenty-first").                                                    *)
(***************************************************************************)
OrdinalOfWord(w) ==
    CASE w = "one" -> "first"
      [] w = "two" -> "second"
      [] w = "three" -> "third"
      [] w = "five" -> "fifth"
      [] w = "eight" -> "eighth"
      [] w = "nine" -> "ninth"
      [] w = "twelve" -> "twelfth"
      [] OTHER -> IF CharAt(w, Len(w)) = "y"
                  THEN SubSeq(w, 1, Len(w) - 1) \o "ieth"
                  ELSE w \o "th"

HyphenPositions(t) == { i \in 1..Len(t) : CharAt(t, i) = "-" }

\* the ordinal form of a cardinal token
OrdinalOfToken(t) ==
    IF HyphenPositions(t) = {} THEN OrdinalOfWord(t)
    ELSE LET h == CHOOSE i \in HyphenPositions(t) : TRUE
         IN  SubSeq(t, 1, h) \o OrdinalOfWord(SubSeq(t, h + 1, Len(t)))

C6_OrdinalSuffix ==
    (Called("to_ord_words") /\ arg.mag # <<>>) =>
        LET t == LastOf(Tokens(UnsignedText(fn.t, arg.mag)))
            o == LastOf(Tokens(ret.val))
        IN  /\ Cardinality(HyphenPositions(t)) <= 1
            /\ o = OrdinalOfToken(t)
            /\ (arg.mag = <<100>> => ret.val = "one hundredth")
            /\ (arg.mag = <<20>> => ret.val = "twentieth")
            /\ (arg.mag = <<21>> => ret.val = "twenty-first")
            /\ (arg.mag = <<12>> => ret.val = "twelfth")
            /\ (arg.mag = OneMillion => ret.val = "one millionth")

C6_Witness ==
    /\ Called("to_ord_words")
    /\ fn.t = "u128"
    /\ arg.mag = TwoGroups(1, 121, 2, 12)
    /\ ret.val = "twelve thousand one hundred twenty-first"

(***************************************************************************)
(* C7: the ordinal transformation touches the last token only: for every   *)
(* non-zero unsigned n, X_to_ord_words(n) and X_to_words(n) have the same  *)
(* number of space-separated tokens and agree on every token but the last. *)
(***************************************************************************)
C7_OrdinalFrame ==
    (Called("to_ord_words") /\ arg.mag # <<>>) =>
        LET card == Tokens(UnsignedText(fn.t, arg.mag))
            ord == Tokens(ret.val)
        IN  /\ Len(ord) = Len(card)
            /\ \A i \in 1..(Len(card) - 1) : ord[i] = card[i]

C7_Witness ==
    /\ Called("to_ord_words")
    /\ fn.t = "u64"
    /\ arg.mag = TwoGroups(1, 1, 3, 1)
    /\ ret.val = "one million first"

(***************************************************************************)
(* C8: str_to_words("") is Ok(""); a non-empty string gives                *)
(* Err(InvalidString) exactly when it has more than one '.', or a          *)
(* character outside '-', '.', '0'..'9', or a '-' at a position other than *)
(* 0, or no digit at all, whatever the magnitude of the integer part.      *)
(***************************************************************************)
Malformed(s) ==
    \/ Cardinality({ i \in 1..Len(s) : CharAt(s, i) = "." }) > 1
    \/ \E i \in 1..Len(s) : ~(CharAt(s, i) \in {"-", "."} \/ IsDigit(CharAt(s, i)))
    \/ \E i \in 2..Len(s) : CharAt(s, i) = "-"
    \/ ~\E i \in 1..Len(s) : IsDigit(CharAt(s, i))

C8_Validation ==
    Called("str_to_words") =>
        /\ (arg.s = "" => ret = Ok(""))
        /\ (arg.s # "" => ((ret = Err("InvalidString")) <=> Malformed(arg.s)))

C8_Witness ==
    /\ Called("str_to_words")
    /\ arg.s = U128_MAX_PLUS_1_TEXT \o ".5."
    /\ ret = Err("InvalidString")

(***************************************************************************)
(* C9: for every string that passes validation, str_to_words gives         *)
(* Err(TooLarge) exactly when the value of the integer part (the digits    *)
(* after an optional leading '-' and before the '.') exceeds 2^128-1;      *)
(* 340282366920938463463374607431768211455 succeeds and ...456 fails, with *)
(* or without a leading '-' and whatever the fractional part.              *)
(***************************************************************************)
Unsigned(s) == IF Len(s) > 0 /\ CharAt(s, 1) = "-" THEN SubSeq(s, 2, Len(s)) ELSE s

\* the digits after an optional leading '-' and before the '.'
IntegerPart(s) ==
    LET u == Unsigned(s)
        dots == { i \in 1..Len(u) : CharAt(u, i) = "." }
    IN  IF dots = {} THEN u
        ELSE SubSeq(u, 1, (CHOOSE i \in dots : \A j \in dots : i <= j) - 1)

\* the digits after the '.', "" when there is none
FractionalPart(s) ==
    LET dots == { i \in 1..Len(s) : CharAt(s, i) = "." }
    IN  IF dots = {} THEN ""
        ELSE SubSeq(s, (CHOOSE i \in dots : \A j \in dots : i <= j) + 1, Len(s))

\* a digit string without its leading zeros
StripZeros(d) ==
    LET nz == { i \in 1..Len(d) : CharAt(d, i) # "0" }
    IN  IF nz = {} THEN ""
        ELSE SubSeq(d, CHOOSE i \in nz : \A j \in nz : i <= j, Len(d))

\* x > y for two digit strings of the same length
DecimalGreaterSameLen(x, y) ==
    \E i \in 1..Len(x) :
        /\ DigitVal(CharAt(x, i)) > DigitVal(CharAt(y, i))
        /\ \A j \in 1..(i - 1) : CharAt(x, j) = CharAt(y, j)

\* the value of the digit string d exceeds 2^128-1
ExceedsU128(d) ==
    LET x == StripZeros(d)
    IN  \/ Len(x) > Len(U128_MAX_TEXT)
        \/ Len(x) = Len(U128_MAX_TEXT) /\ DecimalGreaterSameLen(x, U128_MAX_TEXT)

C9_Ceiling ==
    (Called("str_to_words") /\ arg.s # "" /\ ~Malformed(arg.s)) =>
        /\ (ret = Err("TooLarge")) <=> ExceedsU128(IntegerPart(arg.s))
        /\ (StripZeros(IntegerPart(arg.s)) = U128_MAX_TEXT => ret.tag = "Ok")
        /\ (StripZeros(IntegerPart(arg.s)) = U128_MAX_PLUS_1_TEXT
              => ret = Err("TooLarge"))

C9_Witness ==
    /\ Called("str_to_words")
    /\ arg.s = "-" \o U128_MAX_PLUS_1_TEXT \o ".99999999"
    /\ ret = Err("TooLarge")

(***************************************************************************)
(* C10: for every accepted non-empty string the result is the single-space *)
(* join, in this order, of "negative" iff the string starts with '-',      *)
(* u128_to_words(integer part) iff the integer part is non-empty, "point"  *)
(* iff the string contains '.', and the digit-by-digit spelling of the     *)
(* fractional digits iff a digit follows the '.'.                          *)
(***************************************************************************)
\* the value of a string of at most three digits
LimbValue(d) ==
    LET v(i) == IF i >= 1 THEN DigitVal(CharAt(d, i)) ELSE 0
    IN  100 * v(Len(d) - 2) + 10 * v(Len(d) - 1) + v(Len(d))

RECURSIVE LimbsOf(_)
\* the value of a digit string, three digits per limb from the right
LimbsOf(d) ==
    IF Len(d) = 0 THEN <<>>
    ELSE IF Len(d) <= 3 THEN <<LimbValue(d)>>
    ELSE <<LimbValue(SubSeq(d, Len(d) - 2, Len(d)))>> \o LimbsOf(SubSeq(d, 1, Len(d) - 3))

C10_OutputShape ==
    (Called("str_to_words") /\ arg.s # "" /\ ret.tag = "Ok") =>
        LET int == IntegerPart(arg.s)
            frac == FractionalPart(arg.s)
            parts ==
                (IF CharAt(arg.s, 1) = "-" THEN <<"negative">> ELSE <<>>)
                \o (IF int # "" THEN <<u128_to_words(Norm(LimbsOf(int)))>> ELSE <<>>)
                \o (IF \E i \in 1..Len(arg.s) : CharAt(arg.s, i) = "."
                    THEN <<"point">> ELSE <<>>)
                \o (IF frac # "" THEN <<str_digits_to_words(frac).val>> ELSE <<>>)
        IN  /\ ret.val = Join(parts, " ")
            /\ (arg.s = ".0042" => ret.val = "point zero zero four two")
            /\ (arg.s = "1095." => ret.val = "one thousand ninety-five point")
            /\ (arg.s = "-.5" => ret.val = "negative point five")
            /\ (arg.s = "-0" => ret.val = "negative zero")

C10_Witness ==
    /\ Called("str_to_words")
    /\ arg.s = "-1000000.07"
    /\ ret = Ok("negative one million point zero seven")

(***************************************************************************)
(* C11: leading zeros are ignored by str_to_words: for every accepted      *)
(* string with a non-empty integer part, extra '0' characters at the start *)
(* of the integer part give the same result (same Ok text or same          *)
(* TooLarge), also when the padded integer part has more than 39 digits;   *)
(* "0003000" gives "three thousand".                                       *)
(***************************************************************************)
ZeroPads == {"0", "00", "0000000000000000000000000000000000000000"}

\* s with the zeros z inserted at the start of its integer part
PadIntegerPart(s, z) ==
    IF CharAt(s, 1) = "-" THEN "-" \o z \o SubSeq(s, 2, Len(s)) ELSE z \o s

C11_LeadingZeros ==
    (Called("str_to_words") /\ arg.s # "" /\ ~Malformed(arg.s)
       /\ IntegerPart(arg.s) # "") =>
        /\ \A z \in ZeroPads : str_to_words(PadIntegerPart(arg.s, z)) = ret
        /\ (arg.s = "0003000" => ret = Ok("three thousand"))

C11_Witness ==
    /\ Called("str_to_words")
    /\ arg.s = "-00" \o U128_MAX_TEXT \o ".5"
    /\ ret.tag = "Ok"
    /\ str_to_words("-" \o U128_MAX_TEXT \o ".5") = ret

(***************************************************************************)
(* C12: str_digits_to_words(s) is Err(InvalidCharacter) iff s contains a   *)
(* character that is not '0'..'9'; otherwise it is Ok of the names of the  *)
(* digits, one word per character in input order, joined by single spaces  *)
(* (the empty string for the empty input).                                 *)
(***************************************************************************)
DigitName(c) ==
    CASE c = "0" -> "zero"
      [] c = "1" -> "one"
      [] c = "2" -> "two"
      [] c = "3" -> "three"
      [] c = "4" -> "four"
      [] c = "5" -> "five"
      [] c = "6" -> "six"
      [] c = "7" -> "seven"
      [] c = "8" -> "eight"
      [] c = "9" -> "nine"

HasNonDigit(s) ==
    \E i \in 1..Len(s) : CharAt(s, i) \notin Range(DIGITS)

C12_DigitSpelling ==
    Called("str_digits_to_words") =>
        /\ (ret = Err("InvalidCharacter")) <=> HasNonDigit(arg.s)
        /\ ~HasNonDigit(arg.s) =>
              ret = Ok(Join([i \in 1..Len(arg.s) |-> DigitName(CharAt(arg.s, i))], " "))
        /\ (arg.s = "" => ret = Ok(""))

C12_Witness ==
    /\ Called("str_digits_to_words")
    /\ arg.s = "001247"
    /\ ret = Ok("zero zero one two four seven")

(***************************************************************************)
(* C13: f32_to_words / f64_to_words give Err(NotFinite) iff the input is   *)
(* NaN, +infinity or -infinity; for a finite input the result is that of   *)
(* str_to_words on the shortest round-trip decimal text of the value, with *)
(* TooLarge passed through, and the InvalidString outcome never arises     *)
(* (15.2: "fifteen point two", 34.000: "thirty-four").                     *)
(***************************************************************************)
C13_Float ==
    Called("float_to_words") =>
        /\ (ret = Err("NotFinite")) <=> arg.class \in {"nan", "inf"}
        /\ arg.class \notin {"nan", "inf"} =>
              /\ ~Malformed(FloatToString(arg))
              /\ ret.tag \in {"Ok", "Err"}
              /\ ret = str_to_words(FloatToString(arg))
        /\ (arg = FloatArg("finite", FALSE, "152", 2)
              => ret = Ok("fifteen point two"))
        /\ (arg = FloatArg("finite", FALSE, "34", 2) => ret = Ok("thirty-four"))
        /\ (arg = FloatArg("finite", FALSE, "4", -4)
              => ret = Ok("zero point zero zero zero zero four"))

C13_Witness ==
    /\ Called("float_to_words")
    /\ fn.t = "f64"
    /\ arg = FloatArg("finite", TRUE, "3402823669209385", 39)
    /\ ret = Err("TooLarge")

(***************************************************************************)
(* C14: the integer conversions have no failure mode: for every value of   *)
(* every width the call returns a text and hits no panic site.  lt100 is   *)
(* only called with 1 <= n <= 99 (both table indices in range), lt1000     *)
(* only with a value below 1000, the period loop keeps divisor = 1000^idx  *)
(* and uses PERIODS[idx] only with 0 <= idx <= 11, (1000 as T).pow(P) does *)
(* not overflow T, -n is only evaluated for n > MIN, and the ordinal's     *)
(* words.pop().unwrap() is only reached with a non-empty word list.        *)
(***************************************************************************)
\* the unsigned type whose arithmetic the call on type t uses
ArithmeticType(t) == IF t \in SignedTypes THEN UnsignedOf(t) ELSE t

\* the macro instance that serves the call: u8_to_ord_words uses u16's
MacroType(f, t) == IF f = "to_ord_words" /\ t = "u8" THEN "u16" ELSE t

\* the magnitude the period decomposition of the call works on
Magnitude ==
    IF fn.t \in SignedTypes
    THEN SignedPrefix(fn.t, SignedVal(arg)).nonnegative_n
    ELSE arg.mag

HandWritten == Called("to_words") /\ fn.t \in {"u8", "i8"}

C14_NoPanic ==
    ((Called("to_words") \/ Called("to_ord_words")) /\ arg.mag # <<>>) =>
        LET t == MacroType(fn.f, fn.t)
            periods == NumOfPeriods(t)
            trace == IF HandWritten THEN <<>>
                     ELSE LoopTrace(Magnitude, Pow1000(periods), periods)
            lt1000args == IF HandWritten THEN {AsU16(Magnitude)}
                          ELSE Lt1000Args(Magnitude, periods)
        IN  /\ ret.tag = "String"
            /\ ~PowOverflows(ArithmeticType(t))
            /\ Len(trace) = periods
            /\ \A i \in 1..Len(trace) :
                 /\ trace[i].idx \in 0..11
                 /\ trace[i].divisor = Pow1000(trace[i].idx + 1)
            /\ \A m \in lt1000args :
                 /\ m < 1000
                 /\ \A k \in Lt100Args(m) : k \in 1..99 /\ Lt100IndicesInRange(k)
            /\ (fn.t \in SignedTypes =>
                  ~(NegationEvaluated(fn.t, SignedVal(arg))
                      /\ NegationOverflows(fn.t, SignedVal(arg))))
            /\ (Called("to_ord_words") =>
                  Len(CardinalWords(Magnitude, periods, <<>>)) > 0)

C14_Witness ==
    /\ Called("to_words")
    /\ fn.t = "i128"
    /\ arg.neg
    /\ arg.mag = P2_127
    /\ ret.tag = "String"
    /\ Len(LoopTrace(Magnitude, Pow1000(12), 12)) = 12

(***************************************************************************)
(* C15: within each unsigned width X_to_words is injective: two different  *)
(* values never give the same text, so a word-to-number parser recovers n  *)
(* from X_to_words(n).  Stated with such a parser: reading the text back   *)
(* yields the argument.                                                    *)
(***************************************************************************)
PositionIn(table, w) ==
    IF \E i \in 1..Len(table) : table[i] = w
    THEN CHOOSE i \in 1..Len(table) : table[i] = w
    ELSE 0

\* the value of a word without hyphen, -1 when it is no number word
PlainWordValue(w) ==
    IF PositionIn(NUMS_SMALLER_THAN_20, w) # 0
    THEN PositionIn(NUMS_SMALLER_THAN_20, w)
    ELSE IF PositionIn(MULTIPLES_OF_10, w) # 0
    THEN 10 * (PositionIn(MULTIPLES_OF_10, w) + 1)
    ELSE -1

\* the value of a token below 100: a word, or tens-ones
WordValue(w) ==
    IF HyphenPositions(w) = {} THEN PlainWordValue(w)
    ELSE LET h == CHOOSE i \in HyphenPositions(w) : TRUE
             tens == PlainWordValue(SubSeq(w, 1, h - 1))
             ones == PlainWordValue(SubSeq(w, h + 1, Len(w)))
         IN  IF tens \in {20, 30, 40, 50, 60, 70, 80, 90} /\ ones \in 1..9
             THEN tens + ones
             ELSE -1

RECURSIVE ReadTokens(_, _, _, _)
\* reads tokens i.. : cur is the group being read, limbs the groups read
ReadTokens(toks, i, cur, limbs) ==
    IF i > Len(toks) THEN [limbs EXCEPT ![1] = cur]
    ELSE IF PositionIn(PERIODS, toks[i]) # 0
    THEN ReadTokens(toks, i + 1, 0,
                    [limbs EXCEPT ![PositionIn(PERIODS, toks[i]) + 1] = cur])
    ELSE IF toks[i] = "hundred" THEN ReadTokens(toks, i + 1, cur * 100, limbs)
    ELSE ReadTokens(toks, i + 1, cur + WordValue(toks[i]), limbs)

\* the number a cardinal text stands for
WordsToNumber(text) ==
    IF text = "zero" THEN <<>>
    ELSE Norm(ReadTokens(Tokens(text), 1, 0, [k \in 1..NumLimbs |-> 0]))

C15_Injective ==
    (Called("to_words") /\ fn.t \in UnsignedTypes) =>
        WordsToNumber(ret.val) = arg.mag

C15_Witness ==
    /\ Called("to_words")
    /\ fn.t = "u64"
    /\ arg.mag = TwoGroups(1, 1, 3, 1)
    /\ ret.val = "one million one"
    /\ WordsToNumber("one million one") = arg.mag

(***************************************************************************)
(* C16: for every unsigned n of every width, X_to_words(n) is non-empty,   *)
(* contains no digit character, and consists of words separated by exactly *)
(* one space: no leading space, no trailing space, no two spaces in a row. *)
(***************************************************************************)
Letters ==
    { "a", "b", "c", "d", "e", "f", "g", "h", "i", "j", "k", "l", "m", "n",
      "o", "p", "q", "r", "s", "t", "u", "v", "w", "x", "y", "z" }

WellFormedText(text) ==
    /\ Len(text) > 0
    /\ \A i \in 1..Len(text) : ~IsDigit(CharAt(text, i))
    /\ \A i \in 1..Len(text) : CharAt(text, i) \in Letters \cup {"-", " "}
    /\ CharAt(text, 1) # " "
    /\ CharAt(text, Len(text)) # " "
    /\ \A i \in 1..(Len(text) - 1) :
         ~(CharAt(text, i) = " " /\ CharAt(text, i + 1) = " ")

C16_WellFormed ==
    (Called("to_words") /\ fn.t \in UnsignedTypes) => WellFormedText(ret.val)

C16_Witness ==
    /\ Called("to_words")
    /\ fn.t = "u128"
    /\ arg.mag = U128_MAX
    /\ Len(Tokens(ret.val)) > 40
    /\ WellFormedText(ret.val)

(***************************************************************************)
(* C17: in str_to_words, after the validation pass and the removal of a    *)
(* leading '-', the integer-part substring consists of decimal digits only *)
(* (possibly none), so its parse as u128 can only succeed, report Empty or *)
(* report positive overflow: the unreachable!() branches are never         *)
(* reached and the unwrap() on the fractional part never fails, for any    *)
(* input string.                                                           *)
(***************************************************************************)
\* string after  string = &string[1..]  for a leading '-'
AfterSign(string) ==
    IF CharAt(string, 1) = "-" THEN SubSeq(string, 2, Len(string)) ELSE string

\* string[..floating_point_index_option.unwrap_or(string.len())]
IntegerSubstring(string) ==
    IF Find(string, ".") # 0 THEN SubSeq(string, 1, Find(string, ".") - 1)
    ELSE string

\* string[floating_point_index + 1..], for a string with a '.'
DecimalSubstring(string) == SubSeq(string, Find(string, ".") + 1, Len(string))

C17_Unreachable ==
    Called("str_to_words") =>
        /\ ret.tag # "Panic"
        /\ (arg.s # "" /\ ValidFrom(arg.s, 1, FALSE, FALSE)) =>
              LET string == AfterSign(arg.s)
                  int == IntegerSubstring(string)
              IN  /\ ~HasNonDigit(int)
                  /\ ParseU128(int).kind \in {"Ok", "Empty", "PosOverflow"}
                  /\ (Find(string, ".") # 0 =>
                        str_digits_to_words(DecimalSubstring(string)).tag = "Ok")

C17_Witness ==
    /\ Called("str_to_words")
    /\ arg.s = "-.07"
    /\ ParseU128(IntegerSubstring(AfterSign(arg.s))).kind = "Empty"
    /\ ret = Ok("negative point zero seven")

(***************************************************************************)
(* C18 as stated: the period index k identifies the scale 1000^k with      *)
(* 0 = units group, 1 = thousand, .., 11 = undecillion: in a 128-bit       *)
(* conversion the group extracted at 1000^11 is the one labelled           *)
(* "undecillion", and 11 is the highest period index that is labelled.     *)
(***************************************************************************)
C18_AsStated ==
    (Called("to_words") /\ fn.t = "u128" /\ arg.mag # <<>>) =>
        /\ ("undecillion" \in Range(Tokens(ret.val))) <=> (Group(arg.mag, 11) # 0)
        /\ \A k \in 12..NumLimbs :
             Group(arg.mag, k) # 0 =>
                 Len(Tokens(ret.val)) = Len(Tokens(u128_to_words(
                     [i \in 1..Len(arg.mag) |-> IF i = k + 1 THEN 0 ELSE arg.mag[i]])))

(***************************************************************************)
(* C18 (amended): the period index k identifies the scale 1000^k with      *)
(* 0 = units group, 1 = thousand, .., 11 = decillion, 12 = undecillion     *)
(* (the name of period k is PERIODS[k - 1]): in a 128-bit conversion the   *)
(* group extracted at 1000^12 is the one labelled "undecillion", the group *)
(* at 1000^11 is labelled "decillion", and 12 is the highest period index  *)
(* that is labelled.                                                       *)
(***************************************************************************)
NameOfPeriodIndex(k) ==
    CASE k = 1 -> "thousand"
      [] k = 2 -> "million"
      [] k = 3 -> "billion"
      [] k = 4 -> "trillion"
      [] k = 5 -> "quadrillion"
      [] k = 6 -> "quintillion"
      [] k = 7 -> "sextillion"
      [] k = 8 -> "septillion"
      [] k = 9 -> "octillion"
      [] k = 10 -> "nonillion"
      [] k = 11 -> "decillion"
      [] k = 12 -> "undecillion"

C18_PeriodIndex ==
    (Called("to_words") /\ fn.t = "u128" /\ arg.mag # <<>>) =>
        LET trace == LoopTrace(arg.mag, Pow1000(NumOfPeriods("u128")),
                               NumOfPeriods("u128"))
            toks == Tokens(ret.val)
        IN  /\ \A i \in 1..Len(trace) :
                 LET k == trace[i].idx + 1
                 IN  /\ k \in 1..12
                     /\ trace[i].divisor = Pow1000(k)
                     /\ Index(PERIODS, trace[i].idx) = NameOfPeriodIndex(k)
            /\ \A k \in 1..12 :
                 (NameOfPeriodIndex(k) \in Range(toks)) <=> (Group(arg.mag, k) # 0)
            /\ Len(arg.mag) <= 13

C18_Witness ==
    /\ Called("to_words")
    /\ fn.t = "u128"
    /\ arg.mag = TwoGroups(12, 1, 13, 121)
    /\ ret.val = "one hundred twenty-one undecillion one decillion"

\* the ordinal text of the unsigned value m in the unsigned type t
OrdinalText(t, m) ==
    IF t = "u8" THEN u8_to_ord_words(m) ELSE unsigned_to_ord_words(t, m)

(***************************************************************************)
(* C19: width independence.  Whatever integer type a value was converted   *)
(* in, every other integer type that can represent the value gives the     *)
(* same cardinal text, and every other unsigned type that can represent it *)
(* gives the same ordinal text; the per-width period count and the         *)
(* hand-written 8-bit variants never change the text.                      *)
(***************************************************************************)
C19_WidthIndependence ==
    /\ (Called("to_words") /\ arg.kind = "int") =>
           /\ \A t \in UnsignedTypes :
                FitsUnsigned(t, arg) => UnsignedText(t, arg.mag) = ret.val
           /\ \A t \in SignedTypes :
                FitsSigned(t, arg) => SignedText(t, SignedVal(arg)) = ret.val
    /\ Called("to_ord_words") =>
           \A t \in UnsignedTypes :
               FitsUnsigned(t, arg) => OrdinalText(t, arg.mag) = ret.val

C19_Witness ==
    /\ Called("to_words")
    /\ fn.t = "i8"
    /\ arg.neg
    /\ arg.mag = <<128>>
    /\ ret.val = "negative one hundred twenty-eight"
    /\ ret.val = signed_to_words("i128", SignedVal(arg))

====
